---- MODULE Spec2Model ----
(***************************************************************************)
(* Model of optimisation.py: a job-shop timetable built as a CP-SAT model. *)
(*                                                                         *)
(* The script reads four sheets, merges the downtime entries into tasks,   *)
(* and calls solve(), which emits the constraints, invokes the engine once *)
(* and returns (start_times, end_times) or (None, None).                   *)
(*                                                                         *)
(* The engine (cp_model.CpSolver) is modelled by its contract: on OPTIMAL  *)
(* or FEASIBLE it yields an assignment satisfying every emitted            *)
(* constraint, on OPTIMAL one of minimal objective, and INFEASIBLE only    *)
(* when no assignment exists.                                              *)
(***************************************************************************)
EXTENDS Integers, FiniteSets, Sequences, TLC

VARIABLES pc, tasks, constraints, downtime, breaks, jobs, machines,
          model, status, values, start_times, end_times

vars == <<pc, tasks, constraints, downtime, breaks, jobs, machines,
          model, status, values, start_times, end_times>>

-----------------------------------------------------------------------------
(* Bounds of the model *)

\* Upper end of the domain of the start/end variables.  The code uses 1000
\* (NewIntVar(0, 1000, ...)); the model explores a shorter time axis that
\* still contains both built-in breaks (30,40) and (60,70).
Horizon == 75

-----------------------------------------------------------------------------
(* Values *)

None == <<>>

Max(S) == CHOOSE x \in S : \A y \in S : y <= x
Min(S) == CHOOSE x \in S : \A y \in S : x <= y

\* Rows of the "tasks" sheet: J1 always runs on M1, J2 on M1 or M2.
Durations == {0, 8, 25}

TaskSheets ==
    { (<<"J1", "M1">> :> d1) @@ (<<"J2", m2>> :> d2) :
        d1 \in Durations, d2 \in {8, 25}, m2 \in {"M1", "M2"} }

\* Rows of the "constr" sheet, (job_cur, job_prev): none, a chain, a cycle,
\* a self-precedence, a reference to a job that is in no sheet.
ConstrSheets ==
    { <<>>,
      << <<"J2", "J1">> >>,
      << <<"J1", "J2">>, <<"J2", "J1">> >>,
      << <<"J1", "J1">> >>,
      << <<"J2", "J1">>, <<"J2", "JX">> >> }

\* Rows of the "downtime" sheet, (job, machine) -> (duration, dt_start, dt_end):
\* none, a downtime job of its own, a downtime keyed like an existing task.
DowntimeSheets ==
    { <<>>,
      (<<"DT1", "M1">> :> <<3, 26, 45>>),
      (<<"J1", "M1">> :> <<8, 10, 20>>) }

\* Rows of the "breaks" sheet grouped per machine.
BreakSheets ==
    { <<>>,
      ("M1" :> << <<10, 20>> >>),
      ("M2" :> << <<45, 50>>, <<5, 6>> >>) }


-----------------------------------------------------------------------------
(* Script, lines 170-194: shaping the sheets *)

\* downtime1 = {key: value[0] ...}; tasks.update(downtime1)
MergeDowntime(t, dt) ==
    [k \in (DOMAIN t) \cup (DOMAIN dt) |->
        IF k \in DOMAIN dt THEN dt[k][1] ELSE t[k]]

\* jobs = set(job for job, machine in tasks.keys())
JobsOf(t) == {k[1] : k \in DOMAIN t}

\* machines = set(machine for job, machine in tasks.keys())
MachinesOf(t) == {k[2] : k \in DOMAIN t}

-----------------------------------------------------------------------------
(* solve(), lines 7-109: the constraints the builder emits *)

\* tasks[(job, machine)]
duration(t, job, machine) == t[<<job, machine>>]

\* machine = next(m for j, m in tasks.keys() if j == job)
MachineOf(t, job) == CHOOSE m \in MachinesOf(t) : <<job, m>> \in DOMAIN t

\* model.Add(end[job] == start[job] + duration), one per key of tasks
DurationLinks(t) == {<<k[1], duration(t, k[1], k[2])>> : k \in DOMAIN t}

\* Variant: the two jobs of a precedence swapped
Precedences_Swapped(cs) == {<<cs[i][2], cs[i][1]>> : i \in DOMAIN cs}

\* model.Add(start[job1] >= end[job2]), as <<job1, job2>>
Precedences(cs) == {<<cs[i][1], cs[i][2]>> : i \in DOMAIN cs}

\* start[job1] / end[job2] on a job that has no variable raises KeyError
KeyErrorAt(js, cs) ==
    {i \in DOMAIN cs : cs[i][1] \notin js \/ cs[i][2] \notin js}

\* The constraints emitted when the loop over constraints raises: all the
\* duration links and the precedences before the first unknown job
ModelAtKeyError(js, cs, t) ==
    [vars    |-> js,
     links   |-> DurationLinks(t),
     precs   |-> Precedences(SubSeq(cs, 1, Min(KeyErrorAt(js, cs)) - 1)),
     cumul   |-> {}, lower |-> {}, upper |-> {}, choices |-> {}]

\* machine_jobs = [(job, m) for job, m in tasks.keys() if m == machine]
MachineJobs(t, machine) == {k \in DOMAIN t : k[2] = machine}

\* intervals of one machine: NewIntervalVar(start[job], duration, end[job])
Intervals(t, machine) ==
    {<<k[1], duration(t, k[1], machine)>> : k \in MachineJobs(t, machine)}

\* Variant: a machine that runs two jobs at a time
Cumulatives_Capacity2(t, ms) ==
    {[intervals |-> Intervals(t, machine), capacity |-> 2] : machine \in ms}

\* model.AddCumulative(intervals, demands, 1), one per machine
Cumulatives(t, ms) ==
    {[intervals |-> Intervals(t, machine), capacity |-> 1] : machine \in ms}

\* model.Add(start[job] >= dt_start), as <<job, dt_start>>
DowntimeLower(dt) == {<<k[1], dt[k][2]>> : k \in DOMAIN dt}

\* Variant: the window's end bounds the start of the job, not its end
DowntimeUpper_OnStart(dt) == {<<k[1], dt[k][3] + dt[k][1]>> : k \in DOMAIN dt}

\* model.Add(end[job] <= dt_end), as <<job, dt_end>>
DowntimeUpper(dt) == {<<k[1], dt[k][3]>> : k \in DOMAIN dt}

\* Variant: the second built-in break left out
breaks_for_all_m_FirstOnly == << <<30, 40>> >>

\* breaks_for_all_m = [(30,40), (60,70)]
breaks_for_all_m == << <<30, 40>>, <<60, 70>> >>

\* Per job and built-in break: before_break => start + duration <= break_start,
\* after_break => start >= break_end, AddBoolOr([before_break, after_break]);
\* as <<job, duration, break_start, break_end>>
GlobalBreakChoices(js, t) ==
    {<<job, duration(t, job, MachineOf(t, job)),
       breaks_for_all_m[i][1], breaks_for_all_m[i][2]>> :
        job \in js, i \in DOMAIN breaks_for_all_m}

\* Variant: the lookup never finds the machine
machine_breaks_Missing(br, machine) == <<>>

\* machine_breaks = breaks.get(machine, [])
machine_breaks(br, machine) ==
    IF machine \in DOMAIN br THEN br[machine] ELSE <<>>

\* The same three constraints per job and break of the job's machine
MachineBreakChoices(js, t, br) ==
    UNION { {<<job, duration(t, job, MachineOf(t, job)),
              machine_breaks(br, MachineOf(t, job))[i][1],
              machine_breaks(br, MachineOf(t, job))[i][2]>> :
                i \in DOMAIN machine_breaks(br, MachineOf(t, job))} :
            job \in js }

\* Variant: the objective is the earliest end, not the latest
total_end_time_Earliest(js, en) == Min({en[job] : job \in js})

\* AddMaxEquality(total_end_time, [end[job] for job in jobs]); Minimize
total_end_time(js, en) == Max({en[job] : job \in js})

EmptyModel ==
    [vars |-> {}, links |-> {}, precs |-> {}, cumul |-> {},
     lower |-> {}, upper |-> {}, choices |-> {}]

BuiltModel(js, cs, t, ms, dt, br) ==
    [vars    |-> js,
     links   |-> DurationLinks(t),
     precs   |-> Precedences(cs),
     cumul   |-> Cumulatives(t, ms),
     lower   |-> DowntimeLower(dt),
     upper   |-> DowntimeUpper(dt),
     choices |-> GlobalBreakChoices(js, t) \cup MachineBreakChoices(js, t, br)]

-----------------------------------------------------------------------------
(* The engine, solver.Solve(model): semantics of the emitted constraints *)

\* start + size == end with size >= 0; at every instant the intervals that
\* cover it ([start, end), zero-size intervals cover nothing) have total
\* demand at most the capacity
CumulativeHolds(c, st, en) ==
    /\ \A iv \in c.intervals : iv[2] >= 0 /\ en[iv[1]] = st[iv[1]] + iv[2]
    /\ \A t \in 0..Horizon :
          Cardinality({iv \in c.intervals :
                          st[iv[1]] <= t /\ t < en[iv[1]]}) <= c.capacity

\* Two enforcement literals, each switching on one inequality, at least one true
ChoiceHolds(ch, st) ==
    \E before_break, after_break \in BOOLEAN :
        /\ before_break => st[ch[1]] + ch[2] <= ch[3]
        /\ after_break => st[ch[1]] >= ch[4]
        /\ before_break \/ after_break

Satisfies(m, st, en) ==
    /\ \A l \in m.links : en[l[1]] = st[l[1]] + l[2]
    /\ \A p \in m.precs : st[p[1]] >= en[p[2]]
    /\ \A c \in m.cumul : CumulativeHolds(c, st, en)
    /\ \A b \in m.lower : st[b[1]] >= b[2]
    /\ \A b \in m.upper : en[b[1]] <= b[2]
    /\ \A ch \in m.choices : ChoiceHolds(ch, st)

\* Values of one job's (start, end) pair that its own constraints allow
JobPairs(m, job) ==
    {p \in (0..Horizon) \X (0..Horizon) :
        /\ \A l \in m.links : l[1] = job => p[2] = p[1] + l[2]
        /\ \A b \in m.lower : b[1] = job => p[1] >= b[2]
        /\ \A b \in m.upper : b[1] = job => p[2] <= b[2]
        /\ \A ch \in m.choices :
              ch[1] = job => (p[1] + ch[2] <= ch[3] \/ p[1] >= ch[4])}

RECURSIVE Combine(_, _)
Combine(m, js) ==
    IF js = {} THEN {[start |-> <<>>, end |-> <<>>]}
    ELSE LET job == CHOOSE j \in js : TRUE
         IN  {[start |-> (job :> p[1]) @@ a.start,
               end   |-> (job :> p[2]) @@ a.end] :
                 a \in Combine(m, js \ {job}), p \in JobPairs(m, job)}

\* All assignments of the start/end variables that satisfy the model
Solutions(m) == {a \in Combine(m, m.vars) : Satisfies(m, a.start, a.end)}

\* The assignments of minimal objective
OptimalSolutions(m) ==
    LET S == Solutions(m)
        best == Min({total_end_time(m.vars, a.end) : a \in S})
    IN  IF S = {} THEN {}
        ELSE {a \in S : total_end_time(m.vars, a.end) = best}

-----------------------------------------------------------------------------
(* solve(), lines 115-124: what is returned for a status *)

\* Variant: end_times read from the start variables
Extract_EndIsStart(st, vals) ==
    IF st = "OPTIMAL" \/ st = "FEASIBLE"
    THEN <<vals.start, vals.start>>
    ELSE <<None, None>>

\* Variant: a default timetable when the engine has no assignment
Extract_Default(st, vals) ==
    IF st = "OPTIMAL" \/ st = "FEASIBLE"
    THEN <<vals.start, vals.end>>
    ELSE <<[job \in {"J1", "J2"} |-> 0], [job \in {"J1", "J2"} |-> 0]>>

Extract(st, vals) ==
    IF st = "OPTIMAL" \/ st = "FEASIBLE"
    THEN <<vals.start, vals.end>>
    ELSE <<None, None>>

-----------------------------------------------------------------------------
(* The program *)

Init ==
    /\ pc = "read"
    /\ tasks \in TaskSheets
    /\ constraints \in ConstrSheets
    /\ downtime \in DowntimeSheets
    /\ breaks \in BreakSheets
    /\ jobs = {}
    /\ machines = {}
    /\ model = EmptyModel
    /\ status = None
    /\ values = None
    /\ start_times = None
    /\ end_times = None

\* Lines 170-194: downtime entries become tasks; jobs and machines follow
Prepare ==
    /\ pc = "read"
    /\ tasks' = MergeDowntime(tasks, downtime)
    /\ jobs' = JobsOf(tasks')
    /\ machines' = MachinesOf(tasks')
    /\ pc' = "solve"
    /\ UNCHANGED <<constraints, downtime, breaks, model, status, values,
                   start_times, end_times>>

\* Lines 7-109: every constraint is emitted
BuildModel ==
    /\ pc = "solve"
    /\ KeyErrorAt(jobs, constraints) = {}
    /\ model' = BuiltModel(jobs, constraints, tasks, machines, downtime, breaks)
    /\ pc' = "built"
    /\ UNCHANGED <<tasks, constraints, downtime, breaks, jobs, machines,
                   status, values, start_times, end_times>>

\* Line 20 on a precedence whose job has no variable: KeyError leaves solve
BuildRaises ==
    /\ pc = "solve"
    /\ KeyErrorAt(jobs, constraints) # {}
    /\ model' = ModelAtKeyError(jobs, constraints, tasks)
    /\ pc' = "KeyError"
    /\ UNCHANGED <<tasks, constraints, downtime, breaks, jobs, machines,
                   status, values, start_times, end_times>>

\* Lines 112-113: the engine proves optimality,
SolveOptimal ==
    /\ pc = "built"
    /\ values' \in OptimalSolutions(model)
    /\ status' = "OPTIMAL"
    /\ pc' = "solved"
    /\ UNCHANGED <<tasks, constraints, downtime, breaks, jobs, machines,
                   model, start_times, end_times>>

\* or stops with some assignment,
SolveFeasible ==
    /\ pc = "built"
    /\ values' \in Solutions(model)
    /\ status' = "FEASIBLE"
    /\ pc' = "solved"
    /\ UNCHANGED <<tasks, constraints, downtime, breaks, jobs, machines,
                   model, start_times, end_times>>

\* or proves there is none,
SolveInfeasible ==
    /\ pc = "built"
    /\ Solutions(model) = {}
    /\ status' = "INFEASIBLE"
    /\ pc' = "solved"
    /\ UNCHANGED <<tasks, constraints, downtime, breaks, jobs, machines,
                   model, values, start_times, end_times>>

\* or stops without an assignment and without a proof.
SolveUnknown ==
    /\ pc = "built"
    /\ status' = "UNKNOWN"
    /\ pc' = "solved"
    /\ UNCHANGED <<tasks, constraints, downtime, breaks, jobs, machines,
                   model, values, start_times, end_times>>

\* Lines 115-124
Return ==
    /\ pc = "solved"
    /\ start_times' = Extract(status, values)[1]
    /\ end_times' = Extract(status, values)[2]
    /\ pc' = "done"
    /\ UNCHANGED <<tasks, constraints, downtime, breaks, jobs, machines,
                   model, status, values>>

Next ==
    \/ Prepare
    \/ BuildModel
    \/ BuildRaises
    \/ SolveOptimal
    \/ SolveFeasible
    \/ SolveInfeasible
    \/ SolveUnknown
    \/ Return

Spec == Init /\ [][Next]_vars

Returned == pc = "done" /\ start_times # None /\ end_times # None

-----------------------------------------------------------------------------
(* The laws of a schedule, stated on the inputs *)

DurationLaw(st, en) ==
    \A k \in DOMAIN tasks : en[k[1]] = st[k[1]] + tasks[k]

PrecedenceLaw(st, en) ==
    \A i \in DOMAIN constraints :
        st[constraints[i][1]] >= en[constraints[i][2]]

NoOverlapLaw(st, en) ==
    \A k1, k2 \in DOMAIN tasks :
        (k1[2] = k2[2] /\ k1[1] # k2[1]) =>
            (st[k1[1]] .. (en[k1[1]] - 1)) \cap
            (st[k2[1]] .. (en[k2[1]] - 1)) = {}

DowntimeLaw(st, en) ==
    \A k \in DOMAIN downtime :
        st[k[1]] >= downtime[k][2] /\ en[k[1]] <= downtime[k][3]

BreakLaw(st, en) ==
    \A m \in DOMAIN breaks : \A i \in DOMAIN breaks[m] :
        \A k \in DOMAIN tasks :
            k[2] = m => (en[k[1]] <= breaks[m][i][1] \/ st[k[1]] >= breaks[m][i][2])

GlobalBreakLaw(st, en) ==
    \A job \in jobs :
        /\ en[job] <= 30 \/ st[job] >= 40
        /\ en[job] <= 60 \/ st[job] >= 70

FiveLaws(st, en) ==
    /\ DurationLaw(st, en)
    /\ PrecedenceLaw(st, en)
    /\ NoOverlapLaw(st, en)
    /\ DowntimeLaw(st, en)
    /\ BreakLaw(st, en)

\* What the downtime, break and (with g) built-in break laws ask of one
\* task alone
AloneLaws(k, s, e, g) ==
    /\ k \in DOMAIN downtime => (s >= downtime[k][2] /\ e <= downtime[k][3])
    /\ k[2] \in DOMAIN breaks =>
          \A i \in DOMAIN breaks[k[2]] :
              e <= breaks[k[2]][i][1] \/ s >= breaks[k[2]][i][2]
    /\ g => ((e <= 30 \/ s >= 40) /\ (e <= 60 \/ s >= 70))

\* Timetables of the tasks ks that end by hi, each end being start + duration
RECURSIVE Timetables(_, _, _)
Timetables(ks, hi, g) ==
    IF ks = {} THEN {[start |-> <<>>, end |-> <<>>]}
    ELSE LET k == CHOOSE x \in ks : TRUE
         IN  {[start |-> (k[1] :> s) @@ a.start,
               end   |-> (k[1] :> (s + tasks[k])) @@ a.end] :
                 a \in Timetables(ks \ {k}, hi, g),
                 s \in {x \in 0..(hi - tasks[k]) :
                           AloneLaws(k, x, x + tasks[k], g)}}

Makespan(en) == Max({en[job] : job \in DOMAIN en})

\* C1: in a returned schedule two distinct jobs of one machine, downtime
\* entries included, never occupy a common instant.
C1_NoOverlap == Returned => NoOverlapLaw(start_times, end_times)

C1_Witness ==
    /\ Returned
    /\ \E k1 \in DOMAIN downtime : \E k2 \in DOMAIN tasks :
          /\ k1[2] = k2[2] /\ k1[1] # k2[1]
          /\ tasks[k1] > 0 /\ tasks[k2] > 0
          /\ end_times[k2[1]] = start_times[k1[1]]

\* C2: in a returned schedule every (job, predecessor) of constraints has
\* start(job) >= end(predecessor).
C2_Precedence == Returned => PrecedenceLaw(start_times, end_times)

C2_Witness ==
    /\ Returned
    /\ \E i \in DOMAIN constraints :
          /\ \E k \in DOMAIN tasks : k[1] = constraints[i][2] /\ tasks[k] > 0
          /\ start_times[constraints[i][1]] = end_times[constraints[i][2]]

\* C3: in a returned schedule no job straddles a break of its machine.
C3_BreakAvoidance == Returned => BreakLaw(start_times, end_times)

C3_Witness ==
    /\ Returned
    /\ \E m \in DOMAIN breaks : \E k \in DOMAIN tasks :
          /\ k[2] = m /\ tasks[k] > 0
          /\ start_times[k[1]] = breaks[m][1][2]

\* C4: in a returned schedule the job of every downtime entry runs inside
\* the entry's window.
C4_DowntimeContainment == Returned => DowntimeLaw(start_times, end_times)

C4_Witness ==
    /\ Returned
    /\ \E k \in DOMAIN downtime : end_times[k[1]] = downtime[k][3]

\* C5: in a returned schedule every job ends at its start plus the duration
\* stored for it in tasks.
C5_DurationLaw == Returned => DurationLaw(start_times, end_times)

C5_Witness ==
    /\ Returned
    /\ \E k \in DOMAIN downtime :
          /\ downtime[k][1] > 0
          /\ end_times[k[1]] = start_times[k[1]] + downtime[k][1]

\* C6 as stated: with status OPTIMAL the makespan returned is the least
\* makespan of the schedules that satisfy the five laws: the schedule
\* returned satisfies them and no schedule that does ends earlier.
C6_Optimality ==
    (pc = "done" /\ status = "OPTIMAL") =>
        /\ FiveLaws(start_times, end_times)
        /\ \A b \in Timetables(DOMAIN tasks, Makespan(end_times) - 1, FALSE) :
              ~FiveLaws(b.start, b.end)

\* C6 amended: with status OPTIMAL the makespan returned is the least
\* makespan of the schedules that satisfy the five laws and keep every job
\* out of the built-in windows (30,40) and (60,70).
C6_OptimalityWithGlobalBreaks ==
    (pc = "done" /\ status = "OPTIMAL") =>
        /\ FiveLaws(start_times, end_times)
        /\ GlobalBreakLaw(start_times, end_times)
        /\ \A b \in Timetables(DOMAIN tasks, Makespan(end_times) - 1, TRUE) :
              ~(FiveLaws(b.start, b.end) /\ GlobalBreakLaw(b.start, b.end))

C6_Witness ==
    /\ pc = "done" /\ status = "OPTIMAL"
    /\ Cardinality(jobs) = 3
    /\ Makespan(end_times) = 48

\* Two jobs that each wait for the other, one of them taking time
PrecedenceCycle ==
    \E i, j \in DOMAIN constraints :
        /\ constraints[i][1] # constraints[i][2]
        /\ constraints[j] = <<constraints[i][2], constraints[i][1]>>
        /\ \E k \in DOMAIN tasks : k[1] = constraints[i][1] /\ tasks[k] > 0

\* C7: with status INFEASIBLE or UNKNOWN, and so for a precedence cycle,
\* solve returns (None, None); times are returned only with OPTIMAL or
\* FEASIBLE.
C7_InfeasibilitySoundness ==
    pc = "done" =>
        /\ status \in {"INFEASIBLE", "UNKNOWN"} =>
              (start_times = None /\ end_times = None)
        /\ (start_times # None \/ end_times # None) =>
              status \in {"OPTIMAL", "FEASIBLE"}
        /\ PrecedenceCycle => (start_times = None /\ end_times = None)

C7_Witness ==
    /\ pc = "done"
    /\ PrecedenceCycle
    /\ status = "INFEASIBLE"
    /\ start_times = None /\ end_times = None

\* C8: what solve returns tells the engine's outcomes apart: INFEASIBLE
\* from UNKNOWN, and FEASIBLE from both.
C8_DistinctOutcomes ==
    pc = "done" =>
        /\ status = "INFEASIBLE" =>
              <<start_times, end_times>> # Extract("UNKNOWN", values)
        /\ status = "UNKNOWN" =>
              <<start_times, end_times>> # Extract("INFEASIBLE", values)
        /\ status = "FEASIBLE" =>
              /\ <<start_times, end_times>> # Extract("INFEASIBLE", values)
              /\ <<start_times, end_times>> # Extract("UNKNOWN", values)

\* An input the data model excludes: a duration that is not positive, a
\* precedence on a job that is in no sheet, a job that precedes itself
InvalidInput ==
    \/ \E k \in DOMAIN MergeDowntime(tasks, downtime) :
          MergeDowntime(tasks, downtime)[k] <= 0
    \/ \E i \in DOMAIN constraints :
          \/ constraints[i][1] \notin JobsOf(MergeDowntime(tasks, downtime))
          \/ constraints[i][2] \notin JobsOf(MergeDowntime(tasks, downtime))
          \/ constraints[i][1] = constraints[i][2]

\* C9: on an invalid input no constraint is emitted and the engine is not
\* invoked.
C9_InputValidation ==
    InvalidInput => (model = EmptyModel /\ pc \notin {"built", "solved", "done"})

\* C10: in a returned schedule every job, whatever its machine and whatever
\* breaks holds, lies before 30 or after 40, and before 60 or after 70.
C10_GlobalBreaks == Returned => GlobalBreakLaw(start_times, end_times)

C10_Witness ==
    /\ Returned
    /\ breaks = <<>>
    /\ \E k \in DOMAIN tasks :
          /\ k[2] = "M2" /\ tasks[k] > 0
          /\ start_times[k[1]] = 40
          /\ end_times[k[1]] < 60

====
